---- MODULE Spec2Model ----
(***************************************************************************)
(* vcsnoop: capture the text of a Linux virtual console through the        *)
(* kernel's selection/paste mechanism.  The model follows src/vcsnoop.c:   *)
(* main() validates the device, snoop() runs the switch / select / switch  *)
(* back / paste protocol on the main thread ("m") while rw_thread() relays *)
(* the pasted bytes from the terminal to standard output on the worker     *)
(* thread ("w").  The kernel side (console switch, selection buffer,       *)
(* terminal input queue, signal mask, exit handlers) is modelled as far as *)
(* the program observes it.                                                *)
(***************************************************************************)
EXTENDS Integers, Sequences, FiniteSets, TLC

(* ------------------------------ bounds --------------------------------- *)

\* longest text the selection can hold (bytes are numbered 1..MaxPaste)
MaxPaste == 3
\* room in the terminal's input queue before the paste is throttled
TtyBuf == 2
\* size of the relay buffer, char buf[PIPE_BUF], scaled down
PIPE_BUF == 2

(* ------------------------- program constants --------------------------- *)

TTY_MAJOR == 4
MIN_NR_CONSOLES == 1
MAX_NR_CONSOLES == 63
STDIN_FILENO == 0
TTY_FILENO == 3
EXIT_SUCCESS == 0
EXIT_FAILURE == 1

Threads == {"m", "w"}
Signals == {"SIGINT", "SIGPIPE", "SIGKILL"}
\* signals the kernel never lets a process block
Unblockable == {"SIGKILL"}
\* the consoles that can be active when the program starts
Consoles == {1, 2}
\* what stat(path) can report: rc < 0, or a file type with major and minor
StatResults ==
    {[ok |-> FALSE, chr |-> FALSE, major |-> 0, minor |-> 0],
     [ok |-> TRUE, chr |-> FALSE, major |-> 0, minor |-> 0],
     [ok |-> TRUE, chr |-> TRUE, major |-> 5, minor |-> 1],
     [ok |-> TRUE, chr |-> TRUE, major |-> TTY_MAJOR, minor |-> 0],
     [ok |-> TRUE, chr |-> TRUE, major |-> TTY_MAJOR, minor |-> 1],
     [ok |-> TRUE, chr |-> TRUE, major |-> TTY_MAJOR, minor |-> 2],
     [ok |-> TRUE, chr |-> TRUE, major |-> TTY_MAJOR, minor |-> MAX_NR_CONSOLES],
     [ok |-> TRUE, chr |-> TRUE, major |-> TTY_MAJOR, minor |-> MAX_NR_CONSOLES + 1]}
\* the devices a descriptor can refer to: the controlling terminal (a
\* virtual console), another virtual console, something that is no console
Devices == {"ctty", "other_vc", "not_vc"}
\* the texts a screen can hold: <<>>, <<1>>, <<1,2>>, ...
Texts == {[i \in 1..k |-> i] : k \in 0..MaxPaste}

VARIABLES
    \* inputs, fixed for a run
    arg,            \* what stat() reports for argv[0]
    stdin_dev,      \* the device descriptor 0 refers to
    sigpipe_ign,    \* SIGPIPE disposition inherited as SIG_IGN
    \* program counters and locals
    pc,             \* position of each thread
    ret,            \* where restore_tty() returns to, per thread
    n,              \* snoop()'s argument, the target console
    fd,             \* descriptor of /dev/tty, -1 before open
    orig_vt,        \* vts.v_active
    sig_mask,       \* snoop()'s local sig_mask
    created,        \* outcome of pthread_create: "no", "ok", "failed"
    \* statics of the terminal mode guard
    tty_fd, orig_tio, atexit_state,
    \* the console driver
    active,         \* the console displayed
    vt_want,        \* a switch requested by VT_ACTIVATE and not yet done, or 0
    sel,            \* the kernel's selection buffer
    sel_vt,         \* the console the selection was taken from, or 0
    pasted,         \* bytes of sel the running paste has delivered
    paste_dev,      \* device TIOCL_PASTESEL was issued on, "none" before
    \* the controlling terminal
    lflag,          \* c_lflag of the terminal
    tq,             \* its input queue
    echoed,         \* some pasted byte arrived while ECHO was set
    \* signals
    blocked,        \* signal mask of the main thread
    w_blocked,      \* signal mask of the worker
    pending,        \* signals pending for the process
    \* rw_thread()'s locals and its traffic
    empty, write_error, buf, reads, writes, out,
    \* process exit
    exiting,        \* the thread that called exit() first, or "none"
    exit_code,      \* the status given to that exit()
    ended,          \* "running", "exit0", "exit1", "sigpipe", "crash"
    errlog,         \* what xerror() printed: <<[by, ctx, errno]>>
    \* history
    calls,          \* protocol calls issued by the main thread, in order
    failed_call,    \* the first call of the main thread that failed, or "none"
    calls_at_fail,  \* Len(calls) when it failed
    w_at_paste,     \* the worker's position when TIOCL_PASTESEL was issued
    lflag_at_paste, \* the terminal's c_lflag at that moment
    vt_at_paste,    \* the active console at that moment
    vt_at_sel,      \* the active console when TIOCL_SETSEL was issued
    init_vt,        \* the console that was active when the program started
    chvt_done,      \* how many chvt() calls have returned
    init_applied,   \* init_tty()'s tcsetattr has succeeded
    killed,         \* kill(0, SIGPIPE) has been called
    loop_exit,      \* how the worker left its loop: "-", "timeout", "eof"
    init_lflag,     \* the terminal's c_lflag when the program started
    restores,       \* how many tcsetattr calls of restore_tty() have succeeded
    late            \* a pasted byte was queued after such a call succeeded

inputs == <<arg, stdin_dev, sigpipe_ign>>
locals == <<n, fd, orig_vt, sig_mask, created>>
guard == <<tty_fd, orig_tio, atexit_state>>
vt == <<active, vt_want>>
kern == <<sel, sel_vt, pasted, paste_dev>>
term == <<lflag, tq, echoed>>
sigs == <<blocked, w_blocked, pending>>
wk == <<empty, write_error, buf, reads, writes, out>>
ex == <<exiting, exit_code, ended>>
athist == <<w_at_paste, lflag_at_paste, vt_at_paste, vt_at_sel>>
hist2 == <<init_lflag, restores, late>>
hist == <<athist, init_vt, chvt_done, init_applied, killed, loop_exit, hist2>>
vars == <<inputs, pc, ret, locals, guard, vt, kern, term, sigs, wk, ex,
          errlog, calls, failed_call, calls_at_fail, hist>>

Running == ended = "running"

Min(a, b) == IF a < b THEN a ELSE b

\* the device a descriptor of this process refers to
DevOf(d) == IF d = STDIN_FILENO THEN stdin_dev ELSE "ctty"


(* ------------------------------ helpers -------------------------------- *)

\* xerror(context): print "vcsnoop: context: strerror(errno)", then exit(1)
Xerror(t, ctx, eno) ==
    /\ pc' = [pc EXCEPT ![t] = "exit"]
    /\ errlog' = Append(errlog, [by |-> t, ctx |-> ctx, errno |-> eno])

\* the main thread goes on to its next statement without an error
Goto(next) ==
    /\ pc' = [pc EXCEPT !["m"] = next]
    /\ UNCHANGED errlog

\* a protocol call of the main thread is issued
Issue(c) == calls' = Append(calls, c)

\* that call reported a failure
NoteFail(c) ==
    /\ failed_call' = IF failed_call = "none" THEN c ELSE failed_call
    /\ calls_at_fail' = IF failed_call = "none" THEN Len(calls') ELSE calls_at_fail

NoFail == UNCHANGED <<failed_call, calls_at_fail>>

\* the test the code applies to the return value of every call
Failed(rc) == rc < 0

\* faulty variant: the last console index is refused
ValidDevice_Strict(st) ==
    /\ st.chr
    /\ st.major = TTY_MAJOR
    /\ ~((st.minor < MIN_NR_CONSOLES) \/ (st.minor >= MAX_NR_CONSOLES))

\* main(): the device checks on the stat result
ValidDevice(st) ==
    /\ st.chr
    /\ st.major = TTY_MAJOR
    /\ ~((st.minor < MIN_NR_CONSOLES) \/ (st.minor > MAX_NR_CONSOLES))

\* the descriptor the two TIOCLINUX operations are issued on
TioclFd == STDIN_FILENO

sigfillset == Signals
\* faulty variant: the signal is taken out of the set (sigdelset)
sigaddset_Del(set, s) == set \ {s}

sigaddset(set, s) == set \cup {s}
\* faulty variant: the mask is left as it is
SigBlockMask_Noop(old, set) == old

\* sigprocmask(SIG_BLOCK, set) and sigprocmask(SIG_UNBLOCK, set) on mask old
SigBlockMask(old, set) == (old \cup set) \ Unblockable
SigUnblockMask(old, set) == old \ set

\* faulty variant: the ECHO flag is left as it is
ClearEcho_Noop(lf) == lf

\* tio.c_lflag &= ~ECHO
ClearEcho(lf) == lf \ {"ECHO"}

\* tcsetattr(..., TCSAFLUSH, ...): the input that was queued is discarded
TcsaFlush(q) == <<>>

\* the attributes restore_tty() hands to tcsetattr
RestoreAttrs == orig_tio

\* if (tty_fd < 0) return;
GuardArmed == ~(tty_fd < 0)

\* faulty variant: a short write is not recorded as an error
WriteResult_IgnoreShort(m, len, eno) == IF m < 0 THEN eno ELSE "0"

\* what write_error becomes after write() returned m for n bytes (errno eno)
WriteResult(m, len, eno) ==
    IF m < 0 THEN eno ELSE IF m # len THEN "EIO" ELSE "0"

\* faulty variant: the write is attempted whatever write_error holds
ShouldWrite_Always == TRUE

\* if (!write_error)
ShouldWrite == write_error = "0"

\* faulty variant: every poll timeout is fatal
TimeoutIsFatal_Always == TRUE

\* if (rc == 0) { if (empty) ... }: a poll timeout is fatal
TimeoutIsFatal == empty

\* faulty variant: the timeout after data does not end the loop
AfterTimeout_NoBreak == "w_poll"

\* if (rc == 0) { ...; break; }: where a timeout after data leads
AfterTimeout == "w_after"

\* faulty variant: only the first byte of the chunk is handed to write
WriteArg_OneByte == SubSeq(buf, 1, 1)

\* write(STDOUT_FILENO, buf, n): the bytes handed to write
WriteArg == buf

\* faulty variant: a broken pipe is reported like any other write error
IsBrokenPipe_Never(we) == FALSE

\* if (write_error == EPIPE)
IsBrokenPipe(we) == we = "EPIPE"

\* the process dies of a signal that is pending, not ignored, and unblocked
\* in some thread that is alive
Kills(sig, mmask, wmask) ==
    /\ ~(sig = "SIGPIPE" /\ sigpipe_ign)
    /\ \/ sig \notin mmask
       \/ pc["w"] \notin {"none", "returned"} /\ sig \notin wmask

(* ------------------------------- Init ---------------------------------- *)

Init ==
    /\ arg \in StatResults
    /\ stdin_dev \in Devices
    /\ sigpipe_ign \in BOOLEAN
    /\ pc = [m |-> "stat", w |-> "none"]
    /\ ret = [m |-> "snoop", w |-> "exit"]
    /\ n = 0
    /\ fd = -1
    /\ orig_vt = 0
    /\ sig_mask = {}
    /\ created = "no"
    /\ tty_fd = -1
    /\ orig_tio = {}
    /\ atexit_state = "none"
    /\ active \in Consoles
    /\ vt_want = 0
    /\ sel = <<>>
    /\ sel_vt = 0
    /\ pasted = 0
    /\ paste_dev = "none"
    /\ lflag \in {{"ECHO", "ICANON"}, {"ICANON"}}
    /\ tq = <<>>
    /\ echoed = FALSE
    /\ blocked \in {{}, {"SIGINT"}}
    /\ w_blocked = {}
    /\ pending = {}
    /\ empty = TRUE
    /\ write_error = "0"
    /\ buf = <<>>
    /\ reads = <<>>
    /\ writes = <<>>
    /\ out = <<>>
    /\ exiting = "none"
    /\ exit_code = 0
    /\ ended = "running"
    /\ errlog = <<>>
    /\ calls = <<>>
    /\ failed_call = "none"
    /\ calls_at_fail = 0
    /\ w_at_paste = "-"
    /\ lflag_at_paste = {}
    /\ vt_at_paste = 0
    /\ vt_at_sel = 0
    /\ init_vt = active
    /\ chvt_done = 0
    /\ init_applied = FALSE
    /\ killed = FALSE
    /\ loop_exit = "-"
    /\ init_lflag = lflag
    /\ restores = 0
    /\ late = FALSE

(* --------------------------- main(), snoop() --------------------------- *)

\* main(): stat(path) and the device checks, then snoop(sb_minor)
Stat ==
    /\ Running /\ pc["m"] = "stat"
    /\ IF ~arg.ok
       THEN Xerror("m", "path", "ENOENT") /\ UNCHANGED n
       ELSE IF ~ValidDevice(arg)
       THEN Xerror("m", "path", "ENOTTY") /\ UNCHANGED n
       ELSE Goto("open") /\ n' = arg.minor
    /\ UNCHANGED <<inputs, ret, fd, orig_vt, sig_mask, created, guard, vt, kern,
                   term, sigs, wk, ex, calls, failed_call, calls_at_fail, hist>>

\* fd = open("/dev/tty", O_RDWR)
Open ==
    /\ Running /\ pc["m"] = "open"
    /\ Issue("open")
    /\ \/ Goto("getstate") /\ fd' = TTY_FILENO /\ NoFail
       \/ Xerror("m", "/dev/tty", "ENXIO") /\ NoteFail("open") /\ UNCHANGED fd
    /\ UNCHANGED <<inputs, ret, n, orig_vt, sig_mask, created, guard, vt, kern,
                   term, sigs, wk, ex, hist>>

\* ioctl(fd, VT_GETSTATE, &vts); orig_vt = vts.v_active
GetState ==
    /\ Running /\ pc["m"] = "getstate"
    /\ Issue("VT_GETSTATE")
    /\ \/ Goto("activate1") /\ orig_vt' = active /\ NoFail
       \/ Xerror("m", "VT_GETSTATE", "ENOTTY") /\ NoteFail("VT_GETSTATE")
          /\ UNCHANGED orig_vt
    /\ UNCHANGED <<inputs, ret, n, fd, sig_mask, created, guard, vt, kern,
                   term, sigs, wk, ex, hist>>

\* faulty variant: the second chvt() goes to the target again
ChvtTarget_AlwaysTarget(k) == n

\* the console chvt() number k switches to: the target, then the original
ChvtTarget(k) == IF k = 1 THEN n ELSE orig_vt

\* faulty variant: the selection is never submitted
AfterChvt_SkipSel(k) == IF k = 1 THEN "activate2" ELSE "sigblock"

ActivatePc(k) == IF k = 1 THEN "activate1" ELSE "activate2"
WaitPc(k) == IF k = 1 THEN "waitactive1" ELSE "waitactive2"
AfterChvt(k) == IF k = 1 THEN "setsel" ELSE "sigblock"

\* chvt(): ioctl(fd, VT_ACTIVATE, n); the switch is done at once or left pending
VtActivate(k) ==
    /\ Running /\ pc["m"] = ActivatePc(k)
    /\ Issue("VT_ACTIVATE")
    /\ \/ Goto(WaitPc(k)) /\ NoFail /\ active' = ChvtTarget(k) /\ vt_want' = 0
       \/ Goto(WaitPc(k)) /\ NoFail /\ active # ChvtTarget(k)
          /\ vt_want' = ChvtTarget(k) /\ UNCHANGED active
       \/ Xerror("m", "VT_ACTIVATE", "ENXIO") /\ NoteFail("VT_ACTIVATE")
          /\ UNCHANGED vt
    /\ UNCHANGED <<inputs, ret, locals, guard, kern, term, sigs, wk, ex, hist>>

\* chvt(): ioctl(fd, VT_WAITACTIVE, n) returns 0 once console n is active
VtWaitActive(k) ==
    /\ Running /\ pc["m"] = WaitPc(k)
    /\ Issue("VT_WAITACTIVE")
    /\ \/ Goto(AfterChvt(k)) /\ NoFail /\ active' = ChvtTarget(k) /\ vt_want' = 0
          /\ chvt_done' = chvt_done + 1
       \/ Xerror("m", "VT_WAITACTIVE", "EINTR") /\ NoteFail("VT_WAITACTIVE")
          /\ UNCHANGED <<vt, chvt_done>>
    /\ UNCHANGED <<inputs, ret, locals, guard, kern, term, sigs, wk, ex, athist,
                   init_vt, init_applied, killed, loop_exit, hist2>>

\* ioctl(0, TIOCLINUX, &sel_op.subcode) with TIOCL_SETSEL: the kernel copies
\* the text of the active console into its selection buffer
SetSel ==
    /\ Running /\ pc["m"] = "setsel"
    /\ Issue("TIOCL_SETSEL")
    /\ vt_at_sel' = active
    /\ \/ /\ DevOf(TioclFd) # "not_vc"
          /\ Goto("activate2") /\ NoFail
          /\ sel' \in Texts /\ sel_vt' = active
       \/ Xerror("m", "TIOCL_SETSEL", IF DevOf(TioclFd) = "not_vc" THEN "ENOTTY" ELSE "EINVAL")
          /\ NoteFail("TIOCL_SETSEL")
          /\ UNCHANGED <<sel, sel_vt>>
    /\ UNCHANGED <<inputs, ret, locals, guard, vt, pasted, paste_dev, term, sigs,
                   wk, ex, w_at_paste, lflag_at_paste, vt_at_paste, init_vt,
                   chvt_done, init_applied, killed, loop_exit, hist2>>

\* faulty variant: the worker is never created
AfterSigBlock_NoCreate == "tcgetattr"

\* the statement after sigprocmask(SIG_BLOCK): pthread_create
AfterSigBlock == "create"

\* sigfillset; sigaddset(SIGPIPE); sigprocmask(SIG_BLOCK)
SigBlock ==
    /\ Running /\ pc["m"] = "sigblock"
    /\ Issue("sigblock")
    /\ sig_mask' = sigaddset(sigfillset, "SIGPIPE")
    /\ blocked' = SigBlockMask(blocked, sig_mask')
    /\ Goto(AfterSigBlock) /\ NoFail
    /\ UNCHANGED <<inputs, ret, n, fd, orig_vt, created, guard, vt, kern, term,
                   w_blocked, pending, wk, ex, hist>>

\* rc = pthread_create(&pt, NULL, rw_thread, fd); if (rc < 0) xerror(...)
\* pthread_create returns 0 or a positive error number (EAGAIN = 11)
Create ==
    /\ Running /\ pc["m"] = "create"
    /\ Issue("pthread_create")
    /\ \E rc \in {0, 11} :
         /\ IF rc = 0
            THEN /\ created' = "ok"
                 /\ w_blocked' = blocked
                 /\ NoFail
            ELSE /\ created' = "failed"
                 /\ UNCHANGED w_blocked
                 /\ NoteFail("pthread_create")
         /\ IF Failed(rc)
            THEN Xerror("m", "pthread_create()", "EAGAIN")
            ELSE /\ pc' = [pc EXCEPT !["m"] = "tcgetattr",
                                     !["w"] = IF rc = 0 THEN "w_start" ELSE @]
                 /\ UNCHANGED errlog
    /\ UNCHANGED <<inputs, ret, n, fd, orig_vt, sig_mask, guard, vt, kern, term,
                   blocked, pending, wk, ex, hist>>

\* init_tty(): rc = tcgetattr(fd, &tio); orig_tio = tio
TcGetAttr ==
    /\ Running /\ pc["m"] = "tcgetattr"
    /\ Issue("tcgetattr")
    /\ \/ Goto("tcsetattr") /\ NoFail /\ orig_tio' = lflag
       \/ Xerror("m", "tcgetattr()", "EIO") /\ NoteFail("tcgetattr")
          /\ UNCHANGED orig_tio
    /\ UNCHANGED <<inputs, ret, locals, tty_fd, atexit_state, vt, kern, term,
                   sigs, wk, ex, hist>>

\* init_tty(): tio.c_lflag &= ~ECHO; rc = tcsetattr(fd, TCSAFLUSH, &tio)
\* TCSAFLUSH discards the input that was queued
TcSetAttr ==
    /\ Running /\ pc["m"] = "tcsetattr"
    /\ Issue("tcsetattr")
    /\ \/ Goto("set_tty_fd") /\ NoFail
          /\ lflag' = ClearEcho(orig_tio) /\ tq' = TcsaFlush(tq)
          /\ init_applied' = TRUE
       \/ Xerror("m", "tcsetattr()", "EIO") /\ NoteFail("tcsetattr")
          /\ UNCHANGED <<lflag, tq, init_applied>>
    /\ UNCHANGED <<inputs, ret, locals, guard, vt, kern, echoed, sigs, wk, ex,
                   athist, init_vt, chvt_done, killed, loop_exit, hist2>>

\* init_tty(): tty_fd = fd
SetTtyFd ==
    /\ Running /\ pc["m"] = "set_tty_fd"
    /\ tty_fd' = fd
    /\ Goto("atexit") /\ NoFail
    /\ UNCHANGED <<inputs, ret, locals, orig_tio, atexit_state, vt, kern, term,
                   sigs, wk, ex, calls, hist>>

\* init_tty(): atexit(restore_tty)
AtExit ==
    /\ Running /\ pc["m"] = "atexit"
    /\ atexit_state' = IF atexit_state = "none" THEN "registered" ELSE atexit_state
    /\ Goto("paste") /\ NoFail
    /\ UNCHANGED <<inputs, ret, locals, tty_fd, orig_tio, vt, kern, term, sigs,
                   wk, ex, calls, hist>>


\* ioctl(0, TIOCLINUX, &sel_op.subcode) with TIOCL_PASTESEL: the kernel starts
\* feeding the selection to the terminal the descriptor refers to
Paste ==
    /\ Running /\ pc["m"] = "paste"
    /\ Issue("TIOCL_PASTESEL")
    /\ w_at_paste' = pc["w"]
    /\ lflag_at_paste' = lflag
    /\ vt_at_paste' = active
    /\ \/ /\ DevOf(TioclFd) # "not_vc"
          /\ Goto("pasting") /\ NoFail
          /\ pasted' = 0 /\ paste_dev' = DevOf(TioclFd)
       \/ Xerror("m", "TIOCL_PASTESEL", IF DevOf(TioclFd) = "not_vc" THEN "ENOTTY" ELSE "EINVAL")
          /\ NoteFail("TIOCL_PASTESEL")
          /\ UNCHANGED <<pasted, paste_dev>>
    /\ UNCHANGED <<inputs, ret, locals, guard, vt, sel, sel_vt, term, sigs, wk,
                   ex, vt_at_sel, init_vt, chvt_done, init_applied, killed,
                   loop_exit, hist2>>

\* inside the TIOCL_PASTESEL call: the kernel hands the next byte of the
\* selection to the terminal; it waits while the terminal is throttled
PasteByte ==
    /\ Running /\ pc["m"] = "pasting"
    /\ pasted < Len(sel)
    /\ pasted' = pasted + 1
    /\ IF paste_dev = "ctty"
       THEN /\ Len(tq) < TtyBuf
            /\ tq' = Append(tq, sel[pasted + 1])
            /\ echoed' = (echoed \/ "ECHO" \in lflag)
            /\ late' = (late \/ restores > 0)
       ELSE UNCHANGED <<tq, echoed, late>>
    /\ UNCHANGED <<inputs, pc, ret, locals, guard, vt, sel, sel_vt, paste_dev,
                   lflag, sigs, wk, ex, errlog, calls, failed_call,
                   calls_at_fail, athist, init_vt, chvt_done, init_applied,
                   killed, loop_exit, init_lflag, restores>>

\* the TIOCL_PASTESEL call returns 0 once the whole selection is delivered
PasteDone ==
    /\ Running /\ pc["m"] = "pasting"
    /\ pasted = Len(sel)
    /\ Goto("join") /\ NoFail
    /\ UNCHANGED <<inputs, ret, locals, guard, vt, kern, term, sigs, wk, ex,
                   calls, hist>>

\* rc = pthread_join(pt, NULL); if (rc < 0) xerror(...): returns 0 once the
\* worker has returned
Join ==
    /\ Running /\ pc["m"] = "join"
    /\ created = "ok" /\ pc["w"] = "returned"
    /\ Issue("pthread_join")
    /\ IF Failed(0)
       THEN Xerror("m", "pthread_join()", "EINVAL")
       ELSE Goto("restore_tty")
    /\ NoFail
    /\ UNCHANGED ret
    /\ UNCHANGED <<inputs, locals, guard, vt, kern, term, sigs, wk, ex, hist>>

\* pthread_join(pt) with pt never set, pthread_create having failed: the
\* behaviour is undefined; the call returns an error number (ESRCH = 3), or
\* returns 0, or the process crashes
JoinNoThread ==
    /\ Running /\ pc["m"] = "join"
    /\ created = "failed"
    /\ Issue("pthread_join")
    /\ UNCHANGED ret
    /\ \/ \E rc \in {0, 3} :
            /\ IF Failed(rc)
               THEN Xerror("m", "pthread_join()", "ESRCH")
               ELSE Goto("restore_tty")
            /\ IF rc # 0 THEN NoteFail("pthread_join") ELSE NoFail
            /\ UNCHANGED ended
       \/ /\ ended' = "crash"
          /\ NoteFail("pthread_join")
          /\ UNCHANGED <<pc, errlog>>
    /\ UNCHANGED <<inputs, locals, guard, vt, kern, term, sigs, wk, exiting,
                   exit_code, hist>>

\* snoop() calls restore_tty()
CallRestore ==
    /\ Running /\ pc["m"] = "restore_tty"
    /\ Issue("restore_tty")
    /\ ret' = [ret EXCEPT !["m"] = "snoop"]
    /\ Goto("restore_check") /\ NoFail
    /\ UNCHANGED <<inputs, locals, guard, vt, kern, term, sigs, wk, ex, hist>>

(* ---------------------------- restore_tty() ---------------------------- *)

\* where restore_tty() returns to: the end of snoop(), or exit()'s handler loop
AfterRestore(t) == IF ret[t] = "snoop" THEN "unblock" ELSE "exit_final"

\* if (tty_fd < 0) return;
RestoreCheck(t) ==
    /\ Running /\ pc[t] = "restore_check"
    /\ pc' = [pc EXCEPT ![t] = IF GuardArmed THEN "restore_set" ELSE AfterRestore(t)]
    /\ UNCHANGED <<inputs, ret, locals, guard, vt, kern, term, sigs, wk, ex,
                   errlog, calls, failed_call, calls_at_fail, hist>>

\* rc = tcsetattr(tty_fd, TCSAFLUSH, &orig_tio); if (rc < 0) xerror(...)
RestoreSet(t) ==
    /\ Running /\ pc[t] = "restore_set"
    /\ UNCHANGED calls
    /\ \/ /\ pc' = [pc EXCEPT ![t] = "restore_clear"]
          /\ lflag' = RestoreAttrs /\ tq' = TcsaFlush(tq)
          /\ restores' = restores + 1
          /\ NoFail /\ UNCHANGED errlog
       \/ /\ Xerror(t, "tcsetattr()", "EIO")
          /\ IF ret[t] = "snoop" THEN NoteFail("restore_tty") ELSE NoFail
          /\ UNCHANGED <<lflag, tq, restores>>
    /\ UNCHANGED <<inputs, ret, locals, guard, vt, kern, echoed, sigs, wk, ex,
                   athist, init_vt, chvt_done, init_applied, killed, loop_exit,
                   init_lflag, late>>

\* tty_fd = -1;
RestoreClear(t) ==
    /\ Running /\ pc[t] = "restore_clear"
    /\ tty_fd' = -1
    /\ pc' = [pc EXCEPT ![t] = AfterRestore(t)]
    /\ UNCHANGED <<inputs, ret, locals, orig_tio, atexit_state, vt, kern, term,
                   sigs, wk, ex, errlog, calls, failed_call, calls_at_fail, hist>>

\* sigprocmask(SIG_UNBLOCK, &sig_mask, NULL): a pending signal that is no
\* longer blocked is delivered; then snoop() returns and main() returns 0
Unblock ==
    /\ Running /\ pc["m"] = "unblock"
    /\ Issue("sigunblock")
    /\ blocked' = SigUnblockMask(blocked, sig_mask)
    /\ IF \E s \in pending : Kills(s, blocked', w_blocked)
       THEN ended' = "sigpipe" /\ UNCHANGED <<pc, errlog>>
       ELSE Goto("exit_ok") /\ UNCHANGED ended
    /\ NoFail
    /\ UNCHANGED <<inputs, ret, locals, guard, vt, kern, term, w_blocked,
                   pending, wk, exiting, exit_code, hist>>

(* ------------------------------- exit() -------------------------------- *)

\* the status of the exit() a thread is about to call: main() returning 0,
\* or xerror()'s exit(EXIT_FAILURE)
StatusOf(t) == IF pc[t] = "exit_ok" THEN EXIT_SUCCESS ELSE EXIT_FAILURE

EndedAs(code) == IF code = EXIT_SUCCESS THEN "exit0" ELSE "exit1"

\* exit(status), the first call: run the handlers registered with atexit
Exit(t) ==
    /\ Running /\ pc[t] \in {"exit", "exit_ok"}
    /\ exiting = "none"
    /\ exiting' = t
    /\ exit_code' = StatusOf(t)
    /\ ret' = [ret EXCEPT ![t] = "exit"]
    /\ IF atexit_state = "registered"
       THEN /\ atexit_state' = "consumed"
            /\ pc' = [pc EXCEPT ![t] = "restore_check"]
       ELSE /\ pc' = [pc EXCEPT ![t] = "exit_final"]
            /\ UNCHANGED atexit_state
    /\ UNCHANGED <<inputs, locals, tty_fd, orig_tio, vt, kern, term, sigs, wk,
                   ended, errlog, calls, failed_call, calls_at_fail, hist>>

\* exit() called a second time, from the handler itself (restore_tty() calling
\* xerror()) or from the other thread: the behaviour is undefined.  The
\* second call ends the process at once with its status (the handler is
\* not run again), the process crashes, or a call from the other thread
\* blocks for good.
ExitAgain(t) ==
    /\ Running /\ pc[t] \in {"exit", "exit_ok"}
    /\ exiting # "none"
    /\ \/ ended' = EndedAs(StatusOf(t)) /\ UNCHANGED pc
       \/ ended' = "crash" /\ UNCHANGED pc
       \/ exiting # t /\ pc' = [pc EXCEPT ![t] = "blocked"] /\ UNCHANGED ended
    /\ UNCHANGED <<inputs, ret, locals, guard, vt, kern, term, sigs, wk,
                   exiting, exit_code, errlog, calls, failed_call,
                   calls_at_fail, hist>>

\* exit(): the handlers are done; a handler registered meanwhile may still be
\* run; then the process ends with the status
ExitFinal(t) ==
    /\ Running /\ pc[t] = "exit_final"
    /\ \/ /\ atexit_state = "registered"
          /\ atexit_state' = "consumed"
          /\ pc' = [pc EXCEPT ![t] = "restore_check"]
          /\ UNCHANGED ended
       \/ /\ ended' = EndedAs(exit_code)
          /\ UNCHANGED <<pc, atexit_state>>
    /\ UNCHANGED <<inputs, ret, locals, tty_fd, orig_tio, vt, kern, term, sigs,
                   wk, exiting, exit_code, errlog, calls, failed_call,
                   calls_at_fail, hist>>

(* ----------------------------- rw_thread() ----------------------------- *)

WGoto(next) ==
    /\ pc' = [pc EXCEPT !["w"] = next]
    /\ UNCHANGED errlog

\* bool empty = true; int write_error = 0; the thread reaches its first poll()
WStart ==
    /\ Running /\ pc["w"] = "w_start"
    /\ empty' = TRUE /\ write_error' = "0"
    /\ WGoto("w_poll")
    /\ UNCHANGED <<inputs, ret, locals, guard, vt, kern, term, sigs, buf,
                   reads, writes, out, ex, calls, failed_call, calls_at_fail,
                   hist>>

\* rc = poll(&pfd, 1, 1000): an error, a timeout with nothing to read, or the
\* terminal readable: input is queued, or the terminal has hung up (the
\* worker is then at "w_read_hup")
WPoll ==
    /\ Running /\ pc["w"] = "w_poll"
    /\ \/ Xerror("w", "poll()", "ENOMEM") /\ UNCHANGED loop_exit
       \/ /\ tq = <<>>
          /\ IF TimeoutIsFatal
             THEN Xerror("w", "poll()", "ETIME") /\ UNCHANGED loop_exit
             ELSE WGoto(AfterTimeout) /\ loop_exit' = "timeout"
       \/ /\ tq # <<>>
          /\ WGoto("w_read") /\ UNCHANGED loop_exit
       \/ /\ tq = <<>>
          /\ WGoto("w_read_hup") /\ UNCHANGED loop_exit
    /\ UNCHANGED <<inputs, ret, locals, guard, vt, kern, term, sigs, wk, ex,
                   calls, failed_call, calls_at_fail, athist, init_vt,
                   chvt_done, init_applied, killed, hist2>>

\* n = read(fd, buf, sizeof buf): a chunk of what is queued, 0 (a hangup, or
\* an end-of-file character in the input), or an error; with nothing queued
\* (the queue was flushed since poll returned) and no hangup the call blocks
WRead ==
    /\ Running /\ pc["w"] \in {"w_read", "w_read_hup"}
    /\ \/ /\ tq # <<>>
          /\ \E k \in 1..Min(Len(tq), PIPE_BUF) :
               /\ buf' = SubSeq(tq, 1, k)
               /\ tq' = SubSeq(tq, k + 1, Len(tq))
               /\ reads' = Append(reads, buf')
          /\ empty' = FALSE
          /\ WGoto("w_write")
          /\ UNCHANGED loop_exit
       \/ /\ WGoto("w_after") /\ loop_exit' = "eof"
          /\ UNCHANGED <<tq, buf, reads, empty>>
       \/ /\ Xerror("w", "read()", "EIO")
          /\ UNCHANGED <<tq, buf, reads, empty, loop_exit>>
    /\ UNCHANGED <<inputs, ret, locals, guard, vt, kern, lflag, echoed, sigs,
                   write_error, writes, out, ex, calls, failed_call,
                   calls_at_fail, athist, init_vt, chvt_done, init_applied,
                   killed, hist2>>

\* if (!write_error) { m = write(STDOUT_FILENO, buf, n); ... }: the write
\* takes m of the n bytes (0 <= m <= n) or fails (m = -1); a failure with
\* EPIPE raises SIGPIPE in the writing thread
WWrite ==
    /\ Running /\ pc["w"] = "w_write"
    /\ ShouldWrite
    /\ writes' = Append(writes, WriteArg)
    /\ \E m \in -1..Len(WriteArg) : \E eno \in {"EPIPE", "ENOSPC"} :
         /\ m >= 0 => eno = "EPIPE"
         /\ out' = out \o SubSeq(WriteArg, 1, m)
         /\ write_error' = WriteResult(m, Len(buf), eno)
         /\ IF m < 0 /\ eno = "EPIPE" /\ ~sigpipe_ign /\ "SIGPIPE" \notin w_blocked
            THEN ended' = "sigpipe" /\ UNCHANGED <<pc, errlog>>
            ELSE WGoto("w_poll") /\ UNCHANGED ended
    /\ UNCHANGED <<inputs, ret, locals, guard, vt, kern, term, sigs, empty, buf,
                   reads, exiting, exit_code, calls, failed_call, calls_at_fail,
                   hist>>

\* write_error is set: the chunk is dropped
WSkip ==
    /\ Running /\ pc["w"] = "w_write"
    /\ ~ShouldWrite
    /\ WGoto("w_poll")
    /\ UNCHANGED <<inputs, ret, locals, guard, vt, kern, term, sigs, wk, ex,
                   calls, failed_call, calls_at_fail, hist>>

\* after the loop: kill(0, SIGPIPE), or xerror("write()"), or nothing; return
WAfter ==
    /\ Running /\ pc["w"] = "w_after"
    /\ IF IsBrokenPipe(write_error)
       THEN /\ killed' = TRUE
            /\ IF Kills("SIGPIPE", blocked, w_blocked)
               THEN ended' = "sigpipe" /\ UNCHANGED <<pc, errlog, pending>>
               ELSE /\ WGoto("returned")
                    /\ pending' = IF sigpipe_ign THEN pending
                                  ELSE pending \cup {"SIGPIPE"}
                    /\ UNCHANGED ended
       ELSE IF write_error # "0"
       THEN Xerror("w", "write()", write_error) /\ UNCHANGED <<pending, ended, killed>>
       ELSE WGoto("returned") /\ UNCHANGED <<pending, ended, killed>>
    /\ UNCHANGED <<inputs, ret, locals, guard, vt, kern, term, blocked,
                   w_blocked, wk, exiting, exit_code, calls, failed_call,
                   calls_at_fail, athist, init_vt, chvt_done, init_applied,
                   loop_exit, hist2>>

(* ---------------------------- specification ---------------------------- *)

MainStep ==
    \/ Stat \/ Open \/ GetState
    \/ \E k \in {1, 2} : VtActivate(k) \/ VtWaitActive(k)
    \/ SetSel \/ SigBlock \/ Create
    \/ TcGetAttr \/ TcSetAttr \/ SetTtyFd \/ AtExit
    \/ Paste \/ PasteByte \/ PasteDone
    \/ Join \/ JoinNoThread \/ CallRestore \/ Unblock

WorkerStep ==
    \/ WStart \/ WPoll \/ WRead \/ WWrite \/ WSkip \/ WAfter

ExitStep ==
    \E t \in Threads :
        \/ RestoreCheck(t) \/ RestoreSet(t) \/ RestoreClear(t)
        \/ Exit(t) \/ ExitAgain(t) \/ ExitFinal(t)

Next == MainStep \/ WorkerStep \/ ExitStep

Spec == Init /\ [][Next]_vars

\* the steps of each thread, its part of restore_tty() and exit() included
MainThread ==
    \/ MainStep
    \/ RestoreCheck("m") \/ RestoreSet("m") \/ RestoreClear("m")
    \/ Exit("m") \/ ExitAgain("m") \/ ExitFinal("m")

WorkerThread ==
    \/ WorkerStep
    \/ RestoreCheck("w") \/ RestoreSet("w") \/ RestoreClear("w")
    \/ Exit("w") \/ ExitAgain("w") \/ ExitFinal("w")

\* the runs in which a paste can reach the terminal: the argument is the
\* device of console 2 and descriptor 0 is the controlling terminal
LiveInit ==
    /\ Init
    /\ ValidDevice(arg) /\ arg.minor = 2
    /\ stdin_dev = "ctty"

\* a step in which no call fails, no write fails or is short, and the
\* terminal does not hang up
Quiet ==
    /\ errlog' = errlog
    /\ write_error' = write_error
    /\ created' # "failed"
    /\ ended' # "crash"
    /\ loop_exit' # "eof"
    /\ pc'["w"] # "w_read_hup"

\* both threads are scheduled: a thread that can take a step without a
\* failure eventually takes a step; no failure is ever bound to happen, and a
\* call that can only block or fail may block for ever
LiveSpec ==
    /\ LiveInit /\ [][Next]_vars
    /\ WF_vars(MainThread /\ Quiet)
    /\ WF_vars(WorkerThread /\ Quiet)


(* ------------------------------ properties ----------------------------- *)

Issued(c) == \E i \in 1..Len(calls) : calls[i] = c

IsPrefix(a, b) == Len(a) <= Len(b) /\ SubSeq(b, 1, Len(a)) = a

Ended == ended # "running"

EndedByExit == ended \in {"exit0", "exit1"}

Printed(t, ctx) == \E i \in 1..Len(errlog) : errlog[i].by = t /\ errlog[i].ctx = ctx

\* C1: whenever the process has ended through exit() after init_tty()'s
\* tcsetattr succeeded, the terminal's attributes equal the snapshot orig_tio.
C1_RestoredAtEveryExit ==
    (EndedByExit /\ init_applied) => lflag = orig_tio

\* C2: once the second chvt() has returned, a process that ends leaves the
\* console read by VT_GETSTATE (the one active at the start) displayed; a
\* process that ends with another console displayed ended after the first
\* VT_ACTIVATE was issued and before the second chvt() returned.
C2_OriginalConsoleRestored ==
    /\ (Ended /\ chvt_done = 2) => (active = orig_vt /\ orig_vt = init_vt)
    /\ (Ended /\ active # init_vt) => (Issued("VT_ACTIVATE") /\ chvt_done < 2)

C2_Witness ==
    /\ Ended /\ chvt_done = 2
    /\ n # init_vt /\ active = init_vt /\ sel_vt = n

\* C3 as stated: TIOCL_PASTESEL is issued only when the worker thread exists
\* and has entered its poll() wait.
C3_PasteOnlyWhenPolling ==
    w_at_paste # "-" => w_at_paste \notin {"none", "w_start"}

\* C3 as amended: TIOCL_PASTESEL is issued only after pthread_create has been
\* called and init_tty() has run; if pthread_create succeeded the worker
\* thread exists by then, but it need not have entered poll() yet.
C3_PasteAfterCreate ==
    w_at_paste # "-" =>
        /\ created # "no"
        /\ Issued("tcsetattr")
        /\ created = "ok" => w_at_paste # "none"

C3_Witness ==
    /\ w_at_paste = "w_start"
    /\ created = "ok"
    /\ pc["m"] = "pasting" /\ pasted > 0


\* what C4 says of the worker: a write failure with EPIPE does not end the
\* loop, which ends by a poll timeout after data or by read returning 0; only
\* then is kill(0, SIGPIPE) called; no write() error is printed for it; and
\* the process dies of SIGPIPE only after that kill
C4_WorkerPart ==
    /\ pc["w"] \in {"w_after", "returned"} => loop_exit \in {"timeout", "eof"}
    /\ killed => (write_error = "EPIPE" /\ loop_exit \in {"timeout", "eof"})
    /\ write_error = "EPIPE" => ~Printed("w", "write()")
    /\ (killed /\ ~Ended) => pc["w"] = "returned"
    /\ ended = "sigpipe" => killed

\* C4 as stated: after a write failed with EPIPE the worker stays in its loop
\* until it ends naturally, then calls kill(0, SIGPIPE) without printing a
\* write() error or calling exit(); the process then ends by SIGPIPE, not by
\* an exit status.
C4_EndsBySigpipe ==
    /\ C4_WorkerPart
    /\ (killed /\ Ended) => ended = "sigpipe"

\* C4 as amended: the same of the worker; the process then ends by SIGPIPE
\* when the main thread unblocks the signals, unless SIGPIPE is ignored (the
\* process then exits with status 0) or the restoring tcsetattr of
\* restore_tty() fails first (xerror, exit status 1).
C4_EndsBySigpipeUnlessIgnored ==
    /\ C4_WorkerPart
    /\ (killed /\ Ended) =>
          \/ ended = "sigpipe" /\ ~sigpipe_ign /\ Issued("sigunblock")
          \/ ended = "exit0" /\ sigpipe_ign
          \/ ended \in {"exit1", "crash"} /\ Printed("m", "tcsetattr()")

C4_Witness ==
    /\ ended = "sigpipe" /\ killed
    /\ Len(reads) > Len(writes)
    /\ lflag = orig_tio


ExitPath == {"exit", "restore_check", "restore_set", "restore_clear",
             "exit_final", "blocked"}

\* C5: once a call of the protocol has failed, the process issues no later
\* protocol call and ends, if it ends, with exit status 1; so after a failed
\* pthread_create neither init_tty() nor TIOCL_PASTESEL nor pthread_join runs.
C5_EveryFailureIsFatal ==
    /\ failed_call # "none" =>
          /\ Len(calls) = calls_at_fail
          /\ Ended => ended = "exit1"
    /\ created = "failed" =>
          ~(Issued("tcgetattr") \/ Issued("TIOCL_PASTESEL") \/ Issued("pthread_join"))
    /\ (Printed("w", "poll()") \/ Printed("w", "read()")) => pc["w"] \in ExitPath

\* the capture window: from sigprocmask(SIG_BLOCK) to sigprocmask(SIG_UNBLOCK)
InWindow == Issued("sigblock") /\ ~Issued("sigunblock")

Blockable == Signals \ Unblockable

\* C6 as stated: in the capture window the blocked signals, of the main
\* thread and of the worker, are all the others but not SIGPIPE.
C6_SigpipeLeftUnblocked ==
    InWindow =>
        /\ (Blockable \ {"SIGPIPE"}) \subseteq blocked
        /\ "SIGPIPE" \notin blocked
        /\ pc["w"] # "none" =>
              /\ (Blockable \ {"SIGPIPE"}) \subseteq w_blocked
              /\ "SIGPIPE" \notin w_blocked

\* C6 as amended: in the capture window the blocked signals, of the main
\* thread and of the worker, are all the signals that can be blocked, SIGPIPE
\* among them: no signal is left unblocked.
C6_AllBlockedInWindow ==
    InWindow =>
        /\ blocked = Blockable
        /\ "SIGPIPE" \in blocked
        /\ pc["w"] # "none" => w_blocked = Blockable

C6_Witness ==
    /\ InWindow
    /\ pc["w"] = "w_write" /\ write_error = "0"
    /\ "SIGPIPE" \in w_blocked /\ "SIGPIPE" \in blocked

TimedOutFatally == \E i \in 1..Len(errlog) : errlog[i].errno = "ETIME"

\* C7: a poll timeout is reported as the fatal error poll(): ETIME by the
\* worker, which calls exit(1), exactly when no read has returned data so far,
\* and ends the loop cleanly exactly when some read has: ETIME is never
\* reported after data was read, the loop never ends cleanly by a timeout with
\* nothing read, and after ETIME the process does not end with status 0 or by
\* SIGPIPE.
C7_QuiescenceRule ==
    /\ \A i \in 1..Len(errlog) : errlog[i].errno = "ETIME" =>
          /\ errlog[i].by = "w" /\ errlog[i].ctx = "poll()"
    /\ TimedOutFatally =>
          /\ reads = <<>> /\ empty
          /\ loop_exit = "-"
          /\ pc["w"] \in ExitPath
          /\ exiting = "w" => exit_code = EXIT_FAILURE
          /\ ended \notin {"exit0", "sigpipe"}
    /\ loop_exit = "timeout" =>
          /\ reads # <<>> /\ ~empty
          /\ ~TimedOutFatally

C7_Witness ==
    /\ TimedOutFatally /\ ended = "exit1"
    /\ w_at_paste # "-" /\ sel = <<>>

\* C8: the chunks handed to write(STDOUT_FILENO) are a prefix, chunk for
\* chunk, of the non-empty chunks read() returned from the terminal, each of
\* at most PIPE_BUF bytes; as long as no write has failed every chunk read has
\* been written once the worker is past its write, so after the loop the two
\* sequences are equal.
C8_RelayOrder ==
    /\ IsPrefix(writes, reads)
    /\ \A i \in 1..Len(reads) : Len(reads[i]) \in 1..PIPE_BUF
    /\ (write_error = "0" /\ pc["w"] # "w_write") => writes = reads
    /\ pc["w"] = "w_write" => Len(reads) = Len(writes) + 1 \/ write_error # "0"

C8_Witness ==
    /\ pc["w"] = "returned" /\ write_error = "0"
    /\ Len(writes) = 2 /\ writes = reads
    /\ Len(writes[1]) = 2 /\ out = <<1, 2, 3>>


RECURSIVE Flatten(_)
Flatten(chunks) ==
    IF chunks = <<>> THEN <<>> ELSE Head(chunks) \o Flatten(Tail(chunks))

BytesRead == Len(Flatten(reads))

\* the paste was started on the controlling terminal with a non-empty text
PasteRuns == paste_dev = "ctty" /\ sel # <<>>

\* the worker's poll timed out before it had read the whole stream
Premature == loop_exit = "timeout" /\ BytesRead < Len(sel)

\* some call failed, a write failed or was short, or the terminal hung up
SomethingFailed ==
    \/ errlog # <<>>
    \/ write_error # "0"
    \/ loop_exit = "eof"
    \/ pc["w"] = "w_read_hup"
    \/ created = "failed"
    \/ ended = "crash"

\* the order of the protocol steps in snoop()
Order ==
    <<"open", "VT_GETSTATE", "VT_ACTIVATE", "VT_WAITACTIVE", "TIOCL_SETSEL",
      "VT_ACTIVATE", "VT_WAITACTIVE", "sigblock", "pthread_create",
      "tcgetattr", "tcsetattr", "TIOCL_PASTESEL", "pthread_join",
      "restore_tty", "sigunblock">>

C10_StepOrder ==
    /\ IsPrefix(calls, Order)
    /\ vt_at_sel # 0 => (vt_at_sel = n /\ chvt_done >= 1)
    /\ w_at_paste # "-" => (vt_at_paste = orig_vt /\ chvt_done = 2)

C10_Witness ==
    /\ calls = Order
    /\ n # orig_vt /\ vt_at_sel = n /\ vt_at_paste = orig_vt

\* the guard has been armed at some time: init_tty() has reached tty_fd = fd
WasArmed == tty_fd >= 0 \/ atexit_state # "none"

\* what C11 says of restore_tty(): its tcsetattr is issued only while the
\* guard is armed, the guard is disarmed once the call has succeeded, and the
\* call succeeds at most once
C11_RestoreAtMostOnce ==
    /\ \A t \in Threads : pc[t] \in {"restore_set", "restore_clear"} => tty_fd >= 0
    /\ restores <= 1
    /\ (restores = 1 /\ \A t \in Threads : pc[t] # "restore_clear") => tty_fd < 0

\* C11: restore_tty() issues tcsetattr only while the guard is armed and
\* disarms it after a successful restore, so the saved attributes are applied
\* successfully at most once; and a process that has ended without the guard
\* ever having been armed has issued no restoring tcsetattr and has left the
\* terminal's attributes as they were at the start.
C11_GuardIdempotence ==
    /\ C11_RestoreAtMostOnce
    /\ (Ended /\ ~WasArmed) => (restores = 0 /\ lflag = init_lflag)

\* a write failed with an errno other than EPIPE, or was short (EIO)
NonPipeError == write_error \notin {"0", "EPIPE"}

WriteReported == Printed("w", "write()")

LoopStates == {"w_poll", "w_read", "w_read_hup", "w_write"}

\* C12: a write that failed with an errno other than EPIPE, or was short
\* (EIO), is not reported while the loop runs: the worker stays in the loop
\* (unless poll or read fails) and prints write() only after the loop ended
\* by a timeout or by read returning 0, with the recorded code; it then calls
\* exit(1), never returns and never calls kill, and the process does not end
\* with status 0 or by SIGPIPE.  The failed or short write is the last write:
\* the output is all earlier chunks in full and a part of the last one.
C12_DeferredWriteError ==
    /\ \A i \in 1..Len(errlog) : errlog[i].ctx = "write()" =>
          /\ errlog[i].by = "w" /\ errlog[i].errno = write_error
          /\ NonPipeError
          /\ loop_exit \in {"timeout", "eof"}
    /\ WriteReported =>
          /\ pc["w"] \in ExitPath
          /\ exiting = "w" => exit_code = EXIT_FAILURE
    /\ NonPipeError =>
          /\ ~killed /\ pc["w"] # "returned"
          /\ ended \notin {"exit0", "sigpipe"}
          /\ loop_exit = "-" =>
                \/ pc["w"] \in LoopStates
                \/ pc["w"] \in ExitPath /\ (Printed("w", "poll()") \/ Printed("w", "read()"))
          /\ loop_exit # "-" => (pc["w"] = "w_after" \/ WriteReported)
    /\ write_error = "0" => out = Flatten(writes)
    /\ write_error # "0" =>
          /\ writes # <<>>
          /\ \E j \in 0..Len(writes[Len(writes)]) :
                /\ out = Flatten(SubSeq(writes, 1, Len(writes) - 1))
                            \o SubSeq(writes[Len(writes)], 1, j)
                /\ write_error = "EIO" => j < Len(writes[Len(writes)])
                /\ write_error # "EIO" => j = 0

C12_Witness ==
    /\ WriteReported /\ write_error = "EIO" /\ ended = "exit1"
    /\ Len(reads) > Len(writes)
    /\ Len(out) = 1 /\ Len(writes[Len(writes)]) = 2

\* C13: once main() is past its checks, snoop() has been entered (n is set)
\* exactly when stat succeeded on a character device with major TTY_MAJOR and
\* a minor in MIN_NR_CONSOLES..MAX_NR_CONSOLES, and n is then that minor;
\* otherwise the process has printed one error against the path, ENOTTY for
\* every successful stat (the errno of stat when stat itself failed), calls
\* exit(1), and has not opened /dev/tty, switched a console, changed a
\* terminal attribute, changed the signal mask or created the worker.
C13_ValidationGate ==
    pc["m"] # "stat" =>
        /\ n # 0 <=> /\ arg.ok /\ arg.chr /\ arg.major = TTY_MAJOR
                     /\ MIN_NR_CONSOLES <= arg.minor
                     /\ arg.minor <= MAX_NR_CONSOLES
        /\ n # 0 => n = arg.minor
        /\ n = 0 =>
              /\ errlog = <<[by |-> "m", ctx |-> "path",
                             errno |-> IF arg.ok THEN "ENOTTY" ELSE "ENOENT"]>>
              /\ pc["m"] \in {"exit", "exit_final"}
              /\ exiting = "m" => exit_code = EXIT_FAILURE
              /\ ended \in {"running", "exit1"}
              /\ calls = <<>> /\ fd = -1
              /\ active = init_vt /\ vt_want = 0
              /\ lflag = init_lflag /\ tty_fd = -1
              /\ sig_mask = {} /\ blocked \subseteq {"SIGINT"}
              /\ pc["w"] = "none"

C13_Witness ==
    /\ arg.minor = MAX_NR_CONSOLES /\ n = MAX_NR_CONSOLES
    /\ Issued("TIOCL_SETSEL") /\ vt_at_sel = MAX_NR_CONSOLES

\* C14: both TIOCLINUX operations are issued on the controlling terminal, the
\* device of the descriptor obtained by opening /dev/tty, whatever standard
\* input is: a TIOCL_SETSEL or TIOCL_PASTESEL that has been issued was issued
\* on a descriptor of that device, and a paste that was accepted feeds the
\* terminal the worker reads from.
C14_TioclOnControllingTerminal ==
    /\ (Issued("TIOCL_SETSEL") \/ Issued("TIOCL_PASTESEL")) =>
          DevOf(TioclFd) = DevOf(fd)
    /\ paste_dev # "none" => paste_dev = "ctty"

\* what C15 says of the ECHO flag: TIOCL_PASTESEL is issued only after
\* init_tty()'s tcsetattr has applied the ECHO-cleared attributes, and unless
\* the process is exiting through exit() the flag is clear when the paste is
\* issued and is set again only by the restore_tty() call of snoop(), after
\* the worker has left its loop
C15_EchoPart ==
    /\ w_at_paste # "-" =>
          /\ init_applied
          /\ "ECHO" \in lflag_at_paste => exiting # "none"
    /\ (init_applied /\ "ECHO" \in lflag) =>
          \/ exiting # "none"
          \/ Issued("restore_tty") /\ pc["w"] \notin (LoopStates \cup {"w_start"})

\* C15 as stated: the above, so no byte of the paste is delivered to the
\* terminal while ECHO is set.
C15_NoByteUnderEcho ==
    /\ C15_EchoPart
    /\ ~echoed

\* C15 as amended: the above, so a byte of the paste is delivered to the
\* terminal while ECHO is set only when the process is already exiting
\* through exit(): the exit handler run by the worker sets ECHO again while
\* the paste of the main thread is still delivering.
C15_NoByteUnderEchoUnlessExiting ==
    /\ C15_EchoPart
    /\ echoed => (exiting # "none" /\ atexit_state = "consumed")

C15_Witness ==
    /\ PasteRuns /\ pasted = Len(sel) /\ BytesRead = Len(sel)
    /\ "ECHO" \in orig_tio /\ "ECHO" \notin lflag_at_paste
    /\ ~echoed /\ lflag = orig_tio /\ ended = "exit0"

\* C16: the SIGPIPE the worker sends with kill(0, SIGPIPE) stays pending and
\* blocked until the main thread unblocks the signals: a process that has
\* died of SIGPIPE was sent it by the worker, has returned from pthread_join,
\* has completed restore_tty() (one successful tcsetattr, guard disarmed) and
\* has called sigprocmask(SIG_UNBLOCK), and the terminal's attributes equal
\* the snapshot orig_tio.
C16_SigpipeAfterRestore ==
    /\ ended = "sigpipe" =>
          /\ killed
          /\ Issued("pthread_join") /\ Issued("restore_tty")
          /\ Issued("sigunblock")
          /\ restores = 1 /\ tty_fd = -1
          /\ lflag = orig_tio /\ lflag = init_lflag
    /\ (killed /\ ~Issued("sigunblock")) =>
          /\ Running \/ ended \in {"exit1", "crash"}
          /\ "SIGPIPE" \in blocked /\ "SIGPIPE" \in w_blocked
          /\ ~sigpipe_ign => "SIGPIPE" \in pending

C16_Witness ==
    /\ ended = "sigpipe" /\ killed /\ Issued("sigunblock")
    /\ "ECHO" \in orig_tio /\ "ECHO" \notin lflag_at_paste
    /\ lflag = orig_tio /\ Len(out) = 1

\* a step taken once a write has failed or been short: no write is issued,
\* nothing more reaches standard output, write_error keeps its code
StickyStep ==
    write_error # "0" =>
        /\ write_error' = write_error
        /\ writes' = writes
        /\ out' = out

\* what decides the outcome after the loop: kill(0, SIGPIPE) is called only
\* with write_error = EPIPE, write() is reported only with another code, the
\* one recorded, and the worker returns quietly only with write_error = 0
OutcomeByFirstFailure ==
    /\ killed => write_error = "EPIPE"
    /\ \A i \in 1..Len(errlog) : errlog[i].ctx = "write()" =>
          (errlog[i].errno = write_error /\ NonPipeError)
    /\ (pc["w"] = "returned" /\ ~killed) => write_error = "0"
    /\ write_error # "0" => Len(writes) >= 1 /\ writes[Len(writes)] = reads[Len(writes)]

\* C17: once write_error is nonzero the worker issues no further write to
\* standard output, though it goes on reading chunks, and write_error keeps
\* the code of that first failure; the outcome after the loop (SIGPIPE or the
\* fatal write() error) is decided by that code.
C17_FirstFailureSticky ==
    /\ [][StickyStep]_vars
    /\ []OutcomeByFirstFailure

C17_Witness ==
    /\ write_error = "EPIPE" /\ killed
    /\ Len(writes) = 1 /\ Len(reads) = 3
    /\ out = <<>> /\ BytesRead = Len(sel)

\* the TIOCL_PASTESEL call has returned 0
PasteSucceeded == paste_dev # "none" /\ pc["m"] # "pasting"

\* C18: a process that has ended through the normal path or through exit()
\* after TIOCL_PASTESEL succeeded has an empty terminal input queue: every
\* byte the paste queued has been read by the worker or discarded by the
\* flush of the restoring tcsetattr (bytes queued after that flush set aside).
C18_QueueEmptyAtEnd ==
    (EndedByExit /\ PasteSucceeded /\ ~late) => tq = <<>>

====
